---------------------------- MODULE Spec2Model ----------------------------
(***************************************************************************)
(* A model of PQC_lib.py: the gate catalogue (Gate, PRot, EntGate and      *)
(* their subclasses), the blocks (CHAIN, shared_parameter, RR_block) and   *)
(* the circuit class PQC.                                                  *)
(*                                                                         *)
(* Python objects live in a heap (a sequence of records); a reference is   *)
(* an index into it.  Lists of gates are sequences of references, so that  *)
(* aliasing, copy() and deepcopy() behave as they do in Python.            *)
(*                                                                         *)
(* The linear algebra of qutip is kept symbolic: an operator is a formal   *)
(* sum of terms, a term a scalar coefficient (an exact Gaussian rational)  *)
(* times a product of atoms, an atom one call of a qutip builder           *)
(* (rx(theta, target), cnot(control, target), a Pauli from genFockOp ...). *)
(* Products are associative by construction; no other identity of matrix   *)
(* algebra is assumed.  Angles are integers, in units of pi/2.             *)
(***************************************************************************)
EXTENDS Integers, Sequences, FiniteSets, TLC

VARIABLES
    heap,            \* the Python objects: Seq of gate records
    user_layer,      \* the caller's own layer list: Seq of references
    attrs_set,       \* whether set_gates() has run (PQC.gates, PQC._parameterised exist)
    _layers,         \* PQC._layers: Seq of Seq of references
    _n_layers,       \* PQC._n_layers
    gates,           \* PQC.gates: Seq of references
    _parameterised,  \* PQC._parameterised: Seq of Int
    _quantum_state,  \* PQC._quantum_state: a symbolic state
    ret              \* the last call: [op, arg, exc, val]

vars == <<heap, user_layer, attrs_set, _layers, _n_layers, gates,
          _parameterised, _quantum_state, ret>>

(***************************************************************************)
(* Bounds of the model.                                                    *)
(***************************************************************************)
\* n_qubits / q_N: every gate and the circuit are built for this many qubits
n_qubits == 2
\* angles handed to set_theta / set_params / run, and drawn by rng: 0..MaxAngle
MaxAngle == 1
\* add_layer is not called once the circuit holds this many layers
MaxLayers == 2

\* np.pi / 2 in the model's unit of angle (pi/2)
HalfPi == 1

Angles == 0..MaxAngle

(***************************************************************************)
(* Generic sequence helpers.                                               *)
(***************************************************************************)
RECURSIVE Concat(_)
Concat(ss) == IF ss = <<>> THEN <<>> ELSE Head(ss) \o Concat(Tail(ss))

Reverse(s) == [i \in 1..Len(s) |-> s[Len(s) + 1 - i]]

RECURSIVE IndexFrom(_, _, _)
\* list.index(x): the first position (1-based) of x in s at or after k, 0 if none
IndexFrom(s, x, k) ==
    IF k > Len(s) THEN 0
    ELSE IF s[k] = x THEN k ELSE IndexFrom(s, x, k + 1)

IndexOf(s, x) == IndexFrom(s, x, 1)

(***************************************************************************)
(* Symbolic operators and states.                                          *)
(***************************************************************************)
\* a scalar (re + i*im) / den
COne == <<1, 0, 1>>
CMul(a, b) == <<a[1] * b[1] - a[2] * b[2], a[1] * b[2] + a[2] * b[1], a[3] * b[3]>>

\* one call of a builder of the linear-algebra library
Atom(g, th, q) == [g |-> g, th |-> th, q |-> q]

\* an operator that is a plain product of atoms
Mono(f) == <<[c |-> COne, f |-> f]>>

\* Qobj * Qobj: the product of two formal sums, term by term
OpMul(A, B) ==
    Concat([i \in 1..Len(A) |->
              [j \in 1..Len(B) |-> [c |-> CMul(A[i].c, B[j].c), f |-> A[i].f \o B[j].f]]])

\* Qobj + Qobj, and the 0 a sum starts from (0 + Qobj is the Qobj)
OpZero == <<>>
OpAdd(A, B) == A \o B

\* scalar * Qobj
OpScale(k, A) == [i \in 1..Len(A) |-> [c |-> CMul(k, A[i].c), f |-> A[i].f]]

RECURSIVE prod(_)
\* helper_functions.prod: the product of a non-empty list of operators, in list order
prod(ops) == IF Len(ops) = 1 THEN ops[1] ELSE OpMul(ops[1], prod(Tail(ops)))

\* helper_functions.genFockOp(pauli, q, N, 2): the Pauli on qubit q of N qubits;
\* pauli is [p, s]: the matrix's name and the sign it carries
genFockOp(pauli, q) == OpScale(<<pauli.s, 0, 1>>, Mono(<<Atom(pauli.p, 0, <<q>>)>>))

\* qt.tensor([qt.basis(2, 0) for i in range(n_qubits)])
initial_state == Mono(<<Atom("basis0", 0, <<>>)>>)

(***************************************************************************)
(* The gate classes.  A gate object is a record                            *)
(*   cls      the class name                                               *)
(*   q        _q_on, or <<_q1, _q2>>, or <<>> for a block                  *)
(*   theta    _theta (0 stands for the attribute an EntGate does not have) *)
(*   is_param _is_param                                                    *)
(*   pauli    _pauli as [p, s]: the Pauli's name and its sign; p = "none"  *)
(*            while the attribute has not been assigned                    *)
(*   layer    _layer: the sub-gates of a shared_parameter / RR_block       *)
(*   arg      _rotator of an RR_block, _entangler of a CHAIN               *)
(*   op       _operation                                                   *)
(***************************************************************************)
RotClasses    == {"R_x", "R_y", "R_z"}
FixedClasses  == {"H", "sqrtH", "S", "T", "fixed_R_y"}
EntClasses    == {"CNOT", "CPHASE", "sqrtiSWAP", "CZ"}
RRClasses     == {"R_xx", "R_yy", "R_zz"}
BlockClasses  == {"shared_parameter", "RR_block"}

NoPauli == [p |-> "none", s |-> 0]

\* the Pauli a class's _set_op assigns to _pauli
PauliOf(cls) ==
    CASE cls \in {"R_x", "R_xx"} -> [p |-> "sigmax", s |-> 1]
      [] cls \in {"R_y", "R_yy", "fixed_R_y"} -> [p |-> "sigmay", s |-> 1]
      [] cls \in {"R_z", "R_zz"} -> [p |-> "sigmaz", s |-> 1]
      [] OTHER -> NoPauli

\* CHAIN._set_op: the index pairs, top connections then bottom connections
ChainIndices ==
    [j \in 1..(n_qubits \div 2) |-> <<2 * (j - 1), 2 * (j - 1) + 1>>]
    \o [j \in 1..((n_qubits - 1) \div 2) |-> <<2 * (j - 1) + 1, 2 * (j - 1) + 2>>]

\* RR_block._set_op: the ring of index pairs [i, (i + 1) % N]
RingIndices == [i \in 1..n_qubits |-> <<i - 1, i % n_qubits>>]

\* the operator an entangler class builds for the pair q
EntOp(cls, q) ==
    CASE cls = "CNOT" -> Mono(<<Atom("cnot", 0, q)>>)
      [] cls = "CPHASE" -> Mono(<<Atom("cz_gate", 0, q)>>)
      [] cls = "CZ" -> Mono(<<Atom("cz_gate", 0, q)>>)
      [] cls = "sqrtiSWAP" -> Mono(<<Atom("sqrtiswap", 0, q)>>)

\* cls._set_op() of a gate that is not a shared_parameter / RR_block: the operator
\* it returns for the fields q, theta, arg
BaseOp(cls, q, theta, arg) ==
    CASE cls = "R_x" -> Mono(<<Atom("rx", theta, q)>>)
      [] cls \in {"R_y", "fixed_R_y"} -> Mono(<<Atom("ry", theta, q)>>)
      [] cls = "R_z" -> Mono(<<Atom("rz", theta, q)>>)
      [] cls = "H" -> Mono(<<Atom("x_gate", 0, q), Atom("ry", HalfPi, q)>>)
      [] cls = "sqrtH" -> Mono(<<Atom("np.sqrt(x_gate*ry)", HalfPi, q)>>)
      [] cls = "S" -> Mono(<<Atom("phasegate", HalfPi, q)>>)
      [] cls = "T" -> Mono(<<Atom("t_gate", 0, q)>>)
      [] cls \in EntClasses -> EntOp(cls, q)
      [] cls = "CHAIN" ->
           prod(Reverse([k \in 1..Len(ChainIndices) |-> EntOp(arg, ChainIndices[k])]))
      [] cls = "R_zz" -> Mono(<<Atom("expm(-i/2*theta*sigmaz*sigmaz)", theta, q)>>)
      [] cls = "R_xx" -> Mono(<<Atom("rx", theta, <<q[1]>>), Atom("rx", -theta, <<q[2]>>)>>)
      [] cls = "R_yy" -> Mono(<<Atom("ry", theta, <<q[1]>>), Atom("ry", -theta, <<q[2]>>)>>)

\* shared_parameter._set_op / the last two lines of RR_block._set_op:
\* prod(self._layer[::-1]) over the sub-gates' current operators
LayerOp(h, layer) == prod(Reverse([k \in 1..Len(layer) |-> h[layer[k]].op]))

\* a freshly constructed gate of a class without sub-gates
NewSimple(cls, q, theta, arg) ==
    [cls |-> cls, q |-> q,
     theta |-> IF cls \in {"H", "sqrtH", "S", "T"} THEN HalfPi
               ELSE IF cls = "fixed_R_y" THEN theta ELSE 0,
     is_param |-> cls \in RotClasses \cup RRClasses,
     pauli |-> PauliOf(cls), layer |-> <<>>, arg |-> arg,
     op |-> BaseOp(cls, q, IF cls = "fixed_R_y" THEN theta ELSE 0, arg)]

\* self._operation = self._set_op() for the object at id: the heap afterwards.
\* RR_block._set_op builds a new _layer of rotators, each at theta = 0.
SetOp(h, id) ==
    LET o == h[id] IN
    CASE o.cls = "shared_parameter" -> [h EXCEPT ![id].op = LayerOp(h, o.layer)]
      [] o.cls = "RR_block" ->
           LET n   == Len(h)
               fresh == [k \in 1..Len(RingIndices) |-> NewSimple(o.arg, RingIndices[k], 0, "")]
               lay == [k \in 1..Len(RingIndices) |-> n + k]
               h2  == h \o fresh
           IN  [h2 EXCEPT ![id].layer = lay, ![id].op = LayerOp(h2, lay)]
      [] OTHER ->
           [h EXCEPT ![id].op = BaseOp(o.cls, o.q, o.theta, o.arg),
                     ![id].pauli = IF PauliOf(o.cls) = NoPauli THEN @ ELSE PauliOf(o.cls),
                     ![id].theta = IF o.cls = "S" THEN HalfPi ELSE @]

(***************************************************************************)
(* Constructor calls.  A kind is one constructor call:                     *)
(*   [cls, q, theta, arg, sub], sub the kinds of a shared_parameter's      *)
(*   layer.  Construct appends the new objects to the heap; the new gate   *)
(*   is the last one.                                                      *)
(***************************************************************************)
K(cls, q) == [cls |-> cls, q |-> q, theta |-> 0, arg |-> "", sub |-> <<>>]

RECURSIVE ConstructAll(_, _)
\* the gates of a list of kinds, constructed in order: [h, refs]
ConstructAll(h, kinds) ==
    IF kinds = <<>> THEN [h |-> h, refs |-> <<>>]
    ELSE
      LET k == Head(kinds)
          one ==
            CASE k.cls = "shared_parameter" ->
                   LET subs == ConstructAll(h, k.sub)
                       o == [cls |-> k.cls, q |-> <<>>, theta |-> 0, is_param |-> TRUE,
                             pauli |-> NoPauli, layer |-> subs.refs, arg |-> "",
                             op |-> LayerOp(subs.h, subs.refs)]
                   IN  Append(subs.h, o)
              [] k.cls = "RR_block" ->
                   LET o == [cls |-> k.cls, q |-> <<>>, theta |-> 0, is_param |-> TRUE,
                             pauli |-> NoPauli, layer |-> <<>>, arg |-> k.arg,
                             op |-> OpZero]
                       h1 == Append(h, o)
                       h2 == SetOp(h1, Len(h1))
                   \* the block first, then the rotators its _set_op built
                   IN  h2
              [] OTHER -> Append(h, NewSimple(k.cls, k.q, k.theta, k.arg))
          id == IF k.cls = "RR_block" THEN Len(h) + 1 ELSE Len(one)
          rest == ConstructAll(one, Tail(kinds))
      IN  [h |-> rest.h, refs |-> <<id>> \o rest.refs]

(***************************************************************************)
(* set_theta.  The result is [h, exc]: the heap afterwards and the         *)
(* exception raised ("none" when the call returns).                        *)
(***************************************************************************)
RECURSIVE SetTheta(_, _, _)
RECURSIVE SetThetaAll(_, _, _)

\* for gate in self._layer: gate.set_theta(theta), stopping at the first exception
SetThetaAll(h, layer, t) ==
    IF layer = <<>> THEN [h |-> h, exc |-> "none"]
    ELSE LET r == SetTheta(h, Head(layer), t)
         IN  IF r.exc # "none" THEN r ELSE SetThetaAll(r.h, Tail(layer), t)

SetTheta(h, id, t) ==
    LET o == h[id] IN
    CASE o.cls \in FixedClasses -> [h |-> h, exc |-> "none"]
      [] o.cls \in EntClasses \cup {"CHAIN"} -> [h |-> h, exc |-> "AttributeError"]
      [] o.cls \in BlockClasses ->
           LET h1 == [h EXCEPT ![id].theta = t]
               r  == SetThetaAll(h1, o.layer, t)
           IN  IF r.exc # "none" THEN r
               ELSE [h |-> SetOp(r.h, id), exc |-> "none"]
      [] OTHER -> [h |-> SetOp([h EXCEPT ![id].theta = t], id), exc |-> "none"]

(***************************************************************************)
(* Reference counting: objects no list reaches are dropped and the rest    *)
(* renumbered in the order the lists reach them, so that a state is the    *)
(* object graph and not the history of allocations.                        *)
(***************************************************************************)
RECURSIVE Closure(_, _)
\* r and the sub-gates r reaches, in order
Closure(h, r) ==
    <<r>> \o Concat([k \in 1..Len(h[r].layer) |-> Closure(h, h[r].layer[k])])

ClosureAll(h, refs) == Concat([k \in 1..Len(refs) |-> Closure(h, refs[k])])

RECURSIVE Number(_, _, _, _)
\* the references of s numbered in order of first occurrence:
\* [order, new], order the old references by new number, new the renumbering
Number(order, new, s, k) ==
    IF k > Len(s) THEN [order |-> order, new |-> new]
    ELSE IF s[k] \in DOMAIN new THEN Number(order, new, s, k + 1)
         ELSE Number(Append(order, s[k]), new @@ (s[k] :> Len(order) + 1), s, k + 1)

Canon(h, ul, ls, gs) ==
    LET n == Number(<<>>, <<>>, ClosureAll(h, ul \o Concat(ls) \o gs), 1)
        remap(refs) == [k \in 1..Len(refs) |-> n.new[refs[k]]]
    IN  [heap |-> [i \in 1..Len(n.order) |->
                     [h[n.order[i]] EXCEPT !.layer = remap(@)]],
         user_layer |-> remap(ul),
         _layers |-> [k \in 1..Len(ls) |-> remap(ls[k])],
         gates |-> remap(gs)]

\* the next state's heap and lists; where nothing was allocated and no list
\* changed, the objects keep their numbers
Commit(h, ul, ls, gs) ==
    LET c == IF Len(h) = Len(heap) /\ ul = user_layer /\ ls = _layers /\ gs = gates
             THEN [heap |-> h, user_layer |-> ul, _layers |-> ls, gates |-> gs]
             ELSE Canon(h, ul, ls, gs)
    IN  /\ heap' = c.heap
        /\ user_layer' = c.user_layer
        /\ _layers' = c._layers
        /\ gates' = c.gates

Call(op, arg, exc, val) == [op |-> op, arg |-> arg, exc |-> exc, val |-> val]

(***************************************************************************)
(* The caller's side: building a layer of gates, and calling set_theta on  *)
(* one of its gates.                                                       *)
(***************************************************************************)
Qubits == 0..(n_qubits - 1)
Pairs == {<<0, 1>>, <<1, 0>>}

\* the layers handed to shared_parameter(layer, q_N)
SharedSubs ==
    { <<K("R_x", <<0>>), K("R_y", <<1>>)>>,
      <<K("R_z", <<0>>), K("H", <<1>>)>>,
      <<K("R_y", <<0>>), K("CNOT", <<0, 1>>)>>,
      <<K("R_xx", <<0, 1>>), K("R_z", <<1>>)>> }

AllKinds ==
    {K(c, <<q>>) : c \in RotClasses \cup {"H", "sqrtH", "S", "T"}, q \in Qubits}
    \cup {[K("fixed_R_y", <<q>>) EXCEPT !.theta = t] : q \in Qubits, t \in Angles}
    \cup {K(c, q) : c \in EntClasses \cup RRClasses, q \in Pairs}
    \cup {[K("CHAIN", <<>>) EXCEPT !.arg = e] : e \in EntClasses}
    \cup {[K("RR_block", <<>>) EXCEPT !.arg = r] : r \in RRClasses}
    \cup {[K("shared_parameter", <<>>) EXCEPT !.sub = s] : s \in SharedSubs}

\* layer = [Gate(...), ...]: the caller builds a new list of new gates
NewLayer(tpl) ==
    /\ LET c == ConstructAll(heap, tpl)
       IN  Commit(c.h, c.refs, _layers, gates)
    /\ ret' = Call("new_layer", <<>>, "none", <<>>)
    /\ UNCHANGED <<attrs_set, _n_layers, _parameterised, _quantum_state>>

\* layer[k].set_theta(t), called by the caller on a gate of its own
UserSetTheta(k, t) ==
    /\ k \in 1..Len(user_layer)
    /\ LET r == SetTheta(heap, user_layer[k], t)
       IN  /\ Commit(r.h, user_layer, _layers, gates)
           /\ ret' = Call("set_theta", <<k, t>>, r.exc, <<>>)
    /\ UNCHANGED <<attrs_set, _n_layers, _parameterised, _quantum_state>>

(***************************************************************************)
(* PQC: the helpers of its methods.                                        *)
(***************************************************************************)
RECURSIVE DeepCopyAll(_, _)
\* deepcopy(layer): new objects for the gates of the list and for their sub-gates
DeepCopyAll(h, layer) ==
    IF layer = <<>> THEN [h |-> h, refs |-> <<>>]
    ELSE LET r    == Head(layer)
             subs == DeepCopyAll(h, h[r].layer)
             h2   == Append(subs.h, [h[r] EXCEPT !.layer = subs.refs])
             rest == DeepCopyAll(h2, Tail(layer))
         IN  [h |-> rest.h, refs |-> <<Len(h2)>> \o rest.refs]

\* add_layer / set_layer storing the caller's own gate objects
DeepCopyLayer_Alias(h, layer) == [h |-> h, refs |-> layer]

\* deepcopy(layer) as add_layer and set_layer call it
DeepCopyLayer(h, layer) == DeepCopyAll(h, layer)

RECURSIVE AppendCopies(_, _, _, _)
\* for i in range(n): self._layers.append(deepcopy(layer))
AppendCopies(h, ls, layer, n) ==
    IF n = 0 THEN [h |-> h, ls |-> ls]
    ELSE LET c == DeepCopyLayer(h, layer)
         IN  AppendCopies(c.h, Append(ls, c.refs), layer, n - 1)

RECURSIVE ParamLoop(_, _, _)
\* set_gates: the loop that fills _parameterised, param_count being count
ParamLoop(h, gs, count) ==
    IF gs = <<>> THEN <<>>
    ELSE IF h[Head(gs)].is_param
         THEN <<count>> \o ParamLoop(h, Tail(gs), count + 1)
         ELSE <<-1>> \o ParamLoop(h, Tail(gs), count)

\* set_gates: [gates, _parameterised] for the layers ls
set_gates(h, ls) ==
    LET gs == Concat(ls) IN [gates |-> gs, _parameterised |-> ParamLoop(h, gs, 0)]

RECURSIVE Parameterised(_, _)
\* [g for g in self.gates if g._is_param]
Parameterised(h, gs) ==
    IF gs = <<>> THEN <<>>
    ELSE IF h[Head(gs)].is_param THEN <<Head(gs)>> \o Parameterised(h, Tail(gs))
         ELSE Parameterised(h, Tail(gs))

\* get_params(): [exc, val]
get_params ==
    IF ~attrs_set THEN [exc |-> "AttributeError", val |-> <<>>]
    ELSE LET ps == Parameterised(heap, gates)
         IN  [exc |-> "none", val |-> [k \in 1..Len(ps) |-> heap[ps[k]].theta]]

RECURSIVE SetParamsLoop(_, _, _, _, _)
\* set_params: the loop over enumerate(parameterised), from position count on;
\* rnd are the angles rng draws when angles == []
SetParamsLoop(h, ps, count, angles, rnd) ==
    IF count > Len(ps) THEN [h |-> h, exc |-> "none"]
    ELSE IF angles # <<>> /\ count > Len(angles) THEN [h |-> h, exc |-> "IndexError"]
    ELSE LET angle == IF angles # <<>> THEN angles[count] ELSE rnd[count]
             r == SetTheta(h, ps[count], angle)
         IN  IF r.exc # "none" THEN r
             ELSE SetParamsLoop(r.h, ps, count + 1, angles, rnd)

SetParams(h, gs, angles, rnd) == SetParamsLoop(h, Parameterised(h, gs), 1, angles, rnd)

RECURSIVE Fold(_, _)
\* for g in gates: circuit_state = g * circuit_state
Fold(ops, state) ==
    IF ops = <<>> THEN state ELSE Fold(Tail(ops), OpMul(Head(ops), state))

GateOps(h, gs) == [k \in 1..Len(gs) |-> h[gs[k]].op]

RECURSIVE FlipPauli(_, _)
RECURSIVE FlipAll(_, _)
\* for g in ...: g.flip_pauli(), stopping at the first exception
FlipAll(h, refs) ==
    IF refs = <<>> THEN [h |-> h, exc |-> "none"]
    ELSE LET r == FlipPauli(h, Head(refs))
         IN  IF r.exc # "none" THEN r ELSE FlipAll(r.h, Tail(refs))

\* g.flip_pauli()
FlipPauli(h, id) ==
    LET o == h[id] IN
    CASE o.cls \in BlockClasses -> FlipAll(h, o.layer)
      [] o.cls \in EntClasses \cup {"CHAIN"} -> [h |-> h, exc |-> "AttributeError"]
      [] OTHER ->
           IF o.pauli.p = "none" THEN [h |-> h, exc |-> "AttributeError"]
           ELSE [h |-> [h EXCEPT ![id].pauli.s = -1 * @], exc |-> "none"]

RECURSIVE derivative(_, _)
RECURSIVE DerivSum(_, _, _)
\* shared_parameter.derivative: deriv = deriv + g.derivative() over the layer
DerivSum(h, refs, deriv) ==
    IF refs = <<>> THEN [exc |-> "none", val |-> deriv]
    ELSE LET d == derivative(h, Head(refs))
         IN  IF d.exc # "none" THEN d
             ELSE DerivSum(h, Tail(refs), OpAdd(deriv, d.val))

\* g.derivative(): [exc, val]
derivative(h, id) ==
    LET o == h[id] IN
    CASE o.cls \in BlockClasses -> DerivSum(h, o.layer, OpZero)
      [] o.cls \in EntClasses \cup {"CHAIN"} -> [exc |-> "AttributeError", val |-> OpZero]
      [] o.cls \in RRClasses ->
           [exc |-> "none",
            val |-> OpScale(<<0, -1, 2>>,
                            OpMul(genFockOp(o.pauli, o.q[1]), genFockOp(o.pauli, o.q[2])))]
      [] OTHER ->
           IF o.pauli.p = "none" THEN [exc |-> "AttributeError", val |-> OpZero]
           ELSE [exc |-> "none", val |-> OpScale(<<0, -1, 2>>, genFockOp(o.pauli, o.q[1]))]

\* take_derivative reading g_on as a position of the gate list
DerivLoc_ByPosition(pm, g_on) == IF g_on < Len(pm) THEN g_on + 1 ELSE 0

\* take_derivative: p_loc = self._parameterised.index(g_on), 1-based; 0: ValueError
DerivLoc(pm, g_on) == IndexOf(pm, g_on)

\* take_derivative: the list the fold runs over, gates[p_loc] = deriv * gate
DerivOps(h, gs, p_loc, deriv, gate) ==
    [k \in 1..Len(gs) |-> IF k = p_loc THEN OpMul(deriv, h[gate].op) ELSE h[gs[k]].op]

\* take_derivative putting the copy back at the head of the list
Restore_AtFront(gs, p_loc, gate) == [gs EXCEPT ![1] = gate]

\* take_derivative: gates after gates[p_loc] = gate, gate being the copy
Restore(gs, p_loc, gate) == [gs EXCEPT ![p_loc] = gate]

\* take_derivative(g_on) on the gate list gs: [h, gates, exc, val]
TakeDerivative(h, gs, pm, g_on) ==
    LET p_loc == DerivLoc(pm, g_on) IN
    IF p_loc = 0 THEN [h |-> h, gates |-> gs, exc |-> "ValueError", val |-> <<>>]
    ELSE LET h1   == Append(h, h[gs[p_loc]])      \* gate = copy(gates[p_loc])
             gate == Len(h1)
             d    == derivative(h1, gate)
         IN  IF d.exc # "none"
             THEN [h |-> h, gates |-> gs, exc |-> d.exc, val |-> <<>>]
             ELSE [h |-> h1, gates |-> Restore(gs, p_loc, gate), exc |-> "none",
                   val |-> Fold(DerivOps(h1, gs, p_loc, d.val, gate), initial_state)]

\* get_gradients: n_params = len([i for i in self._parameterised if i > -1])
NParams(pm) == Cardinality({k \in 1..Len(pm) : pm[k] > -1})

RECURSIVE GradLoop(_, _, _, _, _, _)
\* get_gradients: the loop for i in range(n_params), from i on
GradLoop(h, gs, pm, i, n, acc) ==
    IF i >= n THEN [h |-> h, gates |-> gs, exc |-> "none", val |-> acc]
    ELSE LET r == TakeDerivative(h, gs, pm, i)
         IN  IF r.exc # "none" THEN [r EXCEPT !.val = <<>>]
             ELSE GradLoop(r.h, r.gates, pm, i + 1, n, Append(acc, r.val))

GetGradients(h, gs, pm) == GradLoop(h, gs, pm, 0, NParams(pm), <<>>)

(***************************************************************************)
(* PQC: the methods, one action each.                                      *)
(***************************************************************************)
\* the layers the caller builds for a circuit: a fixed gate before a rotation,
\* a shared_parameter block, a ring of two-qubit rotations
CircuitLayers ==
    { <<K("CNOT", <<0, 1>>), K("R_x", <<0>>)>>,
      <<[K("shared_parameter", <<>>) EXCEPT !.sub = <<K("R_y", <<0>>), K("R_z", <<1>>)>>]>>,
      <<[K("RR_block", <<>>) EXCEPT !.arg = "R_zz"]>> }

\* the angle vectors a caller passes where the circuit has np parameters:
\* [] (rng draws the angles) and every vector of np angles
GoodVecs(np) == {<<>>} \cup [1..np -> Angles]

\* the same, and the vectors that are one angle short or one angle long
AngleVecs(np) == UNION {[1..n -> Angles] : n \in {0, np - 1, np, np + 1} \cap Nat}

\* what rng draws for set_params([]) on np parameterised gates
Draws(angles, np) == IF angles = <<>> THEN [1..np -> Angles] ELSE {<<>>}

NP == Len(Parameterised(heap, gates))

\* PQC(n_qubits): the state after construction
Init ==
    /\ heap = <<>>
    /\ user_layer = <<>>
    /\ attrs_set = FALSE
    /\ _layers = <<>>
    /\ _n_layers = 0
    /\ gates = <<>>
    /\ _parameterised = <<>>
    /\ _quantum_state = initial_state
    /\ ret = Call("__init__", <<>>, "none", <<>>)

\* add_layer(layer, n) with the caller's layer
add_layer(n) ==
    /\ user_layer # <<>>
    /\ _n_layers + n <= MaxLayers
    /\ LET c == AppendCopies(heap, _layers, user_layer, n)
           g == set_gates(c.h, c.ls)
       IN  /\ Commit(c.h, user_layer, c.ls, g.gates)
           /\ _parameterised' = g._parameterised
    /\ _n_layers' = _n_layers + n
    /\ attrs_set' = TRUE
    /\ ret' = Call("add_layer", <<n>>, "none", <<>>)
    /\ UNCHANGED _quantum_state

\* set_layer(layer, pos) with the caller's layer
set_layer(pos) ==
    IF pos >= Len(_layers)
    THEN /\ ret' = Call("set_layer", <<pos>>, "IndexError", <<>>)
         /\ UNCHANGED <<heap, user_layer, attrs_set, _layers, _n_layers, gates,
                        _parameterised, _quantum_state>>
    ELSE /\ LET c  == DeepCopyLayer(heap, user_layer)
                ls == [_layers EXCEPT ![pos + 1] = c.refs]
                g  == set_gates(c.h, ls)
            IN  /\ Commit(c.h, user_layer, ls, g.gates)
                /\ _parameterised' = g._parameterised
         /\ attrs_set' = TRUE
         /\ ret' = Call("set_layer", <<pos>>, "none", <<>>)
         /\ UNCHANGED <<_n_layers, _quantum_state>>

\* a method that reads self.gates / self._parameterised before set_gates ever ran
Unset(op, arg) ==
    /\ ~attrs_set
    /\ ret' = Call(op, arg, "AttributeError", <<>>)
    /\ UNCHANGED <<heap, user_layer, attrs_set, _layers, _n_layers, gates,
                   _parameterised, _quantum_state>>

\* set_params(angles)
set_params(angles, rnd) ==
    \/ Unset("set_params", <<Len(angles)>>)
    \/ /\ attrs_set
       /\ LET r == SetParams(heap, gates, angles, rnd)
          IN  /\ Commit(r.h, user_layer, _layers, gates)
              /\ ret' = Call("set_params", <<Len(angles)>>, r.exc, <<>>)
       /\ UNCHANGED <<attrs_set, _n_layers, _parameterised, _quantum_state>>

\* run(angles)
run(angles, rnd) ==
    \/ Unset("run", <<Len(angles)>>)
    \/ /\ attrs_set
       /\ LET r == SetParams(heap, gates, angles, rnd)
          IN  /\ Commit(r.h, user_layer, _layers, gates)
              /\ ret' = Call("run", <<Len(angles)>>, r.exc,
                             IF r.exc # "none" THEN <<>>
                             ELSE Fold(GateOps(r.h, gates), initial_state))
       /\ UNCHANGED <<attrs_set, _n_layers, _parameterised, _quantum_state>>

\* gen_quantum_state(): self._quantum_state = qt.Qobj(self.run())
gen_quantum_state(rnd) ==
    \/ Unset("gen_quantum_state", <<>>)
    \/ /\ attrs_set
       /\ LET r == SetParams(heap, gates, <<>>, rnd)
              psi == Fold(GateOps(r.h, gates), initial_state)
          IN  /\ Commit(r.h, user_layer, _layers, gates)
              /\ ret' = Call("gen_quantum_state", <<>>, r.exc,
                             IF r.exc # "none" THEN <<>> ELSE psi)
              /\ _quantum_state' = IF r.exc # "none" THEN _quantum_state ELSE psi
       /\ UNCHANGED <<attrs_set, _n_layers, _parameterised>>

\* flip_deriv()
flip_deriv ==
    \/ Unset("flip_deriv", <<>>)
    \/ /\ attrs_set
       /\ LET r == FlipAll(heap, Parameterised(heap, gates))
          IN  /\ Commit(r.h, user_layer, _layers, gates)
              /\ ret' = Call("flip_deriv", <<>>, r.exc, <<>>)
       /\ UNCHANGED <<attrs_set, _n_layers, _parameterised, _quantum_state>>

\* take_derivative(g_on)
take_derivative(g_on) ==
    \/ Unset("take_derivative", <<g_on>>)
    \/ /\ attrs_set
       /\ LET r == TakeDerivative(heap, gates, _parameterised, g_on)
          IN  /\ Commit(r.h, user_layer, _layers, r.gates)
              /\ ret' = Call("take_derivative", <<g_on>>, r.exc, r.val)
       /\ UNCHANGED <<attrs_set, _n_layers, _parameterised, _quantum_state>>

\* get_gradients()
get_gradients ==
    \/ Unset("get_gradients", <<>>)
    \/ /\ attrs_set
       /\ LET r == GetGradients(heap, gates, _parameterised)
          IN  /\ Commit(r.h, user_layer, _layers, r.gates)
              /\ ret' = Call("get_gradients", <<>>, r.exc, r.val)
       /\ UNCHANGED <<attrs_set, _n_layers, _parameterised, _quantum_state>>

(***************************************************************************)
(* The specifications: callers of the library.                             *)
(*   Spec       builds layers, assembles a circuit, sets its parameters    *)
(*              and takes its derivatives                                  *)
(*   SpecAlias  instead of derivatives, changes its own gates after        *)
(*              handing them over                                          *)
(*   SpecFlip   flips the sign convention between assignments and          *)
(*              gradients                                                  *)
(*   SpecArgs   passes angle vectors of the right and of a wrong length    *)
(*              to set_params and run                                      *)
(*   SpecState  caches the state with gen_quantum_state                    *)
(*   SpecGates  only builds gates, of every class, and calls set_theta     *)
(***************************************************************************)
Build ==
    \/ \E tpl \in CircuitLayers : NewLayer(tpl)
    \/ \E n \in 1..MaxLayers : add_layer(n)
    \/ \E pos \in 0..(MaxLayers - 1) : set_layer(pos)

Assign == \E angles \in GoodVecs(NP) : \E rnd \in Draws(angles, NP) : set_params(angles, rnd)

Differentiate ==
    \/ \E g_on \in 0..NP : take_derivative(g_on)
    \/ get_gradients

Next == Build \/ Assign \/ Differentiate

Spec == Init /\ [][Next]_vars

NextAlias ==
    \/ Build
    \/ Assign
    \/ \E k \in 1..Len(user_layer), t \in Angles : UserSetTheta(k, t)

SpecAlias == Init /\ [][NextAlias]_vars

NextFlip == Build \/ Assign \/ flip_deriv \/ get_gradients

SpecFlip == Init /\ [][NextFlip]_vars

NextArgs ==
    \/ Build
    \/ \E angles \in AngleVecs(NP) : \E rnd \in Draws(angles, NP) : set_params(angles, rnd)
    \/ \E angles \in AngleVecs(NP) : \E rnd \in Draws(angles, NP) : run(angles, rnd)

SpecArgs == Init /\ [][NextArgs]_vars

NextState == Build \/ Assign \/ \E rnd \in [1..NP -> Angles] : gen_quantum_state(rnd)

SpecState == Init /\ [][NextState]_vars

\* the layers of one gate of any class
GateLayers == {<<k>> : k \in AllKinds}

NextGates ==
    \/ \E tpl \in GateLayers : NewLayer(tpl)
    \/ \E k \in 1..Len(user_layer), t \in Angles : UserSetTheta(k, t)

SpecGates == Init /\ [][NextGates]_vars

(***************************************************************************)
(* Properties of the gates (checked under SpecGates).                      *)
(***************************************************************************)
RECURSIVE OpIsCurrent(_, _)
\* the operator of the gate at id is the one its class builds from its current
\* theta; for a block, the reverse-order product of its sub-gates' operators,
\* the sub-gates current themselves and every parameterised one at the block's theta
OpIsCurrent(h, id) ==
    LET o == h[id] IN
    IF o.cls \in BlockClasses
    THEN /\ o.op = LayerOp(h, o.layer)
         /\ \A k \in 1..Len(o.layer) :
              /\ OpIsCurrent(h, o.layer[k])
              /\ h[o.layer[k]].is_param => h[o.layer[k]].theta = o.theta
    ELSE o.op = BaseOp(o.cls, o.q, o.theta, o.arg)

\* the gate the caller's last set_theta was called on
Target == heap[user_layer[ret.arg[1]]]

\* C1: whenever a constructor or a set_theta call has returned, every
\* parameterised gate the caller holds has the operation built from its
\* current theta (a block: the reverse-order product of sub-gates that report
\* the block's theta), and after set_theta(t) the gate's theta is t.
C1_OperationMatchesTheta ==
    ret.exc = "none" =>
        /\ \A k \in 1..Len(user_layer) :
             heap[user_layer[k]].is_param => OpIsCurrent(heap, user_layer[k])
        /\ (ret.op = "set_theta" /\ Target.is_param) => Target.theta = ret.arg[2]

\* C6: set_theta(t) on a gate that is not parameterised, or on a
\* shared_parameter whose layer holds such a gate, returns without raising,
\* and leaves a gate that is not parameterised as it was.
C6_SetThetaOnFixedGateIsNoOp ==
    [][\A k \in 1..Len(user_layer) :
         (ret'.op = "set_theta" /\ ret'.arg[1] = k
          /\ heap[user_layer[k]].cls \notin RotClasses \cup RRClasses \cup {"RR_block"})
         => /\ ret'.exc = "none"
            /\ ~heap[user_layer[k]].is_param
                 => heap'[user_layer'[k]] = heap[user_layer[k]]]_vars

(***************************************************************************)
(* Properties of the circuit.                                              *)
(***************************************************************************)
\* C5: in every state of a PQC, get_params() and get_gradients() return, and
\* len(get_params()) is the number of entries of _parameterised that are
\* not -1 and is len(get_gradients()).
C5_ParameterCountsAgree ==
    LET grads == IF attrs_set THEN GetGradients(heap, gates, _parameterised)
                 ELSE [exc |-> "AttributeError", val |-> <<>>]
    IN  /\ get_params.exc = "none"
        /\ grads.exc = "none"
        /\ Len(get_params.val) = NParams(_parameterised)
        /\ Len(get_params.val) = Len(grads.val)

\* C7 (checked under SpecArgs): set_params(angles) and run(angles) with a
\* non-empty angles whose length is not the number of parameterised gates raise.
C7_WrongLengthRaises ==
    (ret.op \in {"set_params", "run"} /\ ret.arg[1] # 0 /\ ret.arg[1] # NP)
        => ret.exc # "none"

\* C9: the gates of PQC.gates and the gates of PQC._layers agree: _layers
\* flattened has, position by position, the theta and the operation of gates.
C9_GatesAgreeWithLayers ==
    LET flat == Concat(_layers) IN
    attrs_set =>
        /\ Len(flat) = Len(gates)
        /\ \A k \in 1..Len(flat) :
             /\ heap[flat[k]].theta = heap[gates[k]].theta
             /\ heap[flat[k]].op = heap[gates[k]].op

\* C10 (checked under SpecState): gen_quantum_state() leaves get_params() as it
\* was, and the state it caches is the one of the angles the gates had.
C10_GenQuantumStateKeepsParams ==
    [][ret'.op = "gen_quantum_state" =>
         /\ get_params' = get_params
         /\ ret'.exc = "none" =>
              _quantum_state' = Fold(GateOps(heap, gates), initial_state)]_vars

\* the generator the derivative of the gate at position k of PQC.gates uses
Generator(k) == derivative(heap, gates[k]).val

\* C4 (checked under SpecFlip): flip_deriv() negates the generator of every
\* parameterised gate, and set_params leaves the generators as they are, so
\* that the derivatives taken later use the flipped sign.
C4_FlipDerivPersists ==
    [][\A k \in 1..Len(gates) :
         heap[gates[k]].is_param =>
           /\ (ret'.op = "flip_deriv" /\ ret'.exc = "none")
                => Generator(k)' = OpScale(<<-1, 0, 1>>, Generator(k))
           /\ (ret'.op = "set_params" /\ ret'.exc = "none")
                => Generator(k)' = Generator(k)]_vars

\* the flattened position of the i-th parameterised gate in encounter order
ParamPosition(i) ==
    CHOOSE k \in 1..Len(gates) :
        /\ heap[gates[k]].is_param
        /\ Cardinality({j \in 1..(k - 1) : heap[gates[j]].is_param}) = i

RECURSIVE Applied(_, _)
\* the state after the first n operators of ops, ops[1] applied first
Applied(ops, n) == IF n = 0 THEN initial_state ELSE OpMul(ops[n], Applied(ops, n - 1))

\* C2: for every parameter index i below the number of parameterised gates,
\* take_derivative(i) returns the gates folded onto initial_state in list
\* order, the i-th parameterised gate replaced by derivative * gate and
\* every other position the gate itself.
C2_TakeDerivativeFold ==
    [][(ret'.op = "take_derivative" /\ attrs_set /\ ret'.arg[1] < NP) =>
         LET p   == ParamPosition(ret'.arg[1])
             ops == [k \in 1..Len(gates) |->
                       IF k = p THEN OpMul(Generator(p), heap[gates[p]].op)
                       ELSE heap[gates[k]].op]
         IN  /\ ret'.exc = "none"
             /\ ret'.val = Applied(ops, Len(ops))]_vars

\* take_derivative(1) has returned on a circuit whose first gate is not
\* parameterised and that has an angle other than 0
C2_Witness ==
    /\ ret.op = "take_derivative" /\ ret.exc = "none" /\ ret.arg[1] = 1
    /\ _parameterised[1] = -1
    /\ \E k \in 1..Len(get_params.val) : get_params.val[k] # 0

\* PQC.gates by value: the type, theta and operation at every position
GatesView ==
    [k \in 1..Len(gates) |->
       [cls |-> heap[gates[k]].cls, theta |-> heap[gates[k]].theta,
        op |-> heap[gates[k]].op]]

\* C3: take_derivative and get_gradients leave PQC.gates as it was by value,
\* and _parameterised and get_params() as they were.
C3_DerivativeLeavesCircuit ==
    [][ret'.op \in {"take_derivative", "get_gradients"} =>
         /\ GatesView' = GatesView
         /\ _parameterised' = _parameterised
         /\ get_params' = get_params]_vars

\* get_gradients has returned two gradients on a circuit with an angle other
\* than 0, and PQC.gates no longer holds the objects of PQC._layers
C3_Witness ==
    /\ ret.op = "get_gradients" /\ ret.exc = "none" /\ Len(ret.val) = 2
    /\ \E k \in 1..Len(get_params.val) : get_params.val[k] # 0
    /\ gates # Concat(_layers)

RECURSIVE DeepValue(_, _)
\* a gate by value, its sub-gates by value
DeepValue(h, id) ==
    LET subs == h[id].layer
    IN  [h[id] EXCEPT !.layer = [k \in 1..Len(subs) |-> DeepValue(h, subs[k])]]

ValuesOf(refs) == [k \in 1..Len(refs) |-> DeepValue(heap, refs[k])]

\* what the caller holds, and what the circuit holds
UserView == ValuesOf(user_layer)
CircuitView ==
    [layers |-> [i \in 1..Len(_layers) |-> ValuesOf(_layers[i])],
     gates |-> ValuesOf(gates),
     params |-> get_params,
     map |-> _parameterised]

\* the objects the list refs reaches
Reach(refs) == LET s == ClosureAll(heap, refs) IN {s[k] : k \in 1..Len(s)}

\* no object is shared by the caller and the circuit, nor by two layers
Independent ==
    /\ Reach(user_layer) \cap (Reach(Concat(_layers)) \cup Reach(gates)) = {}
    /\ \A i, j \in 1..Len(_layers) : i < j => Reach(_layers[i]) \cap Reach(_layers[j]) = {}

\* C8 (checked under SpecAlias): after add_layer / set_layer the caller and the
\* circuit share no object and neither do two layers; no call changes both what
\* the caller holds and what the circuit holds.
C8_LayersAreDeepCopies ==
    [][/\ Independent'
       /\ UserView' = UserView \/ CircuitView' = CircuitView]_vars

\* the caller has set a gate of the layer it added twice to 1, and the
\* circuit's angles are all 0
C8_Witness ==
    /\ ret.op = "set_theta" /\ ret.exc = "none"
    /\ Len(_layers) >= 2
    /\ [k \in 1..Len(user_layer) |-> heap[user_layer[k]].cls]
         = [k \in 1..Len(_layers[1]) |-> heap[_layers[1][k]].cls]
    /\ \E k \in 1..Len(user_layer) :
         heap[user_layer[k]].is_param /\ heap[user_layer[k]].theta = 1
    /\ get_params.val = [k \in 1..NP |-> 0]

=============================================================================
